---------------------------- MODULE Spec2Model ----------------------------
(***************************************************************************)
(* rustbricks: a typed client for the Databricks REST control plane.      *)
(*                                                                         *)
(* The module models                                                       *)
(*   - the JSON data model (serde derive + serde_json) of the response    *)
(*     types, as a deserializer over JSON values;                          *)
(*   - the error taxonomy (HttpError::from_error_response);                *)
(*   - the request dispatcher of DatabricksSession (send_databricks_-      *)
(*     request / handle_response) and the session's operations;            *)
(*   - the free functions and their dispatcher (services/sql_service.rs,   *)
(*     cluster_service.rs, databricks_request.rs);                         *)
(*   - tasks calling the operations of one shared session, with the       *)
(*     transport (server, network) as the environment (Spec, SpecConc);    *)
(*   - the data model alone, a text read, written and read again           *)
(*     (SpecData);                                                         *)
(*   - one statement submitted and polled to its end (SpecPoll).           *)
(*                                                                         *)
(* Representation.  A Rust String is a TLA+ string; format! is \o.         *)
(* Three kinds of text are inspected by the code or by the libraries it    *)
(* calls and are therefore kept structured:                                *)
(*   - the bearer token is a sequence of bytes (HeaderValue parsing looks  *)
(*     at every byte);                                                     *)
(*   - the host is a text in two pieces, <<scheme, authority>>, and a URL  *)
(*     one in three, <<scheme, authority, rest>> (Url parsing needs an     *)
(*     absolute URL);                                                      *)
(*   - a response body is either <<"json", v>>, the text of the JSON       *)
(*     value v, or <<"raw", s>>, a text s that is not JSON.                *)
(* serde_json's " at line L column C" suffix of an error text is left out,  *)
(* and serde's backquotes around a name are written as quotes.            *)
(***************************************************************************)
EXTENDS Integers, Sequences, FiniteSets, TLC

(***************************************************************************)
(* Bounds of the model.                                                    *)
(***************************************************************************)
\* number of tasks that share the session
NumTasks == 2
\* number of calls made in one behaviour (caps the call/request counters)
MaxCalls == 3

(***************************************************************************)
(* Text helpers.                                                           *)
(***************************************************************************)
Digit(d) ==
    CASE d = 0 -> "0" [] d = 1 -> "1" [] d = 2 -> "2" [] d = 3 -> "3"
      [] d = 4 -> "4" [] d = 5 -> "5" [] d = 6 -> "6" [] d = 7 -> "7"
      [] d = 8 -> "8" [] d = 9 -> "9"

RECURSIVE DecNat(_)
DecNat(n) == IF n < 10 THEN Digit(n) ELSE DecNat(n \div 10) \o Digit(n % 10)

\* Display of an integer (u16, i32, i64): decimal, "-" for a negative one.
DisplayInt(n) == IF n < 0 THEN "-" \o DecNat(0 - n) ELSE DecNat(n)

(***************************************************************************)
(* JSON values (serde_json's data model).  An object keeps the order and   *)
(* the repetitions of its members: a sequence of <<key, value>>.           *)
(***************************************************************************)
JNull == <<"null">>
JBool(b) == <<"bool", b>>
JNum(n) == <<"num", n>>
JFloat(s) == <<"float", s>>
JStr(s) == <<"str", s>>
JArr(a) == <<"arr", a>>
JObj(m) == <<"obj", m>>

\* serde::de::Unexpected, as Display prints it
Unexpected(j) ==
    CASE j[1] = "null" -> "null"
      [] j[1] = "bool" -> "boolean '" \o (IF j[2] THEN "true" ELSE "false") \o "'"
      [] j[1] = "num" -> "integer '" \o DisplayInt(j[2]) \o "'"
      [] j[1] = "float" -> "floating point '" \o j[2] \o "'"
      [] j[1] = "str" -> "string '" \o j[2] \o "'"
      [] j[1] = "arr" -> "sequence"
      [] j[1] = "obj" -> "map"

InvalidType(j, expected) ==
    <<"Err", "invalid type: " \o Unexpected(j) \o ", expected " \o expected>>

(***************************************************************************)
(* Rust types and values.                                                  *)
(***************************************************************************)
TString == <<"String">>
TI32 == <<"i32">>
TI64 == <<"i64">>
TF64 == <<"f64">>
TBool == <<"bool">>
TValue == <<"Value">>
TOption(ty) == <<"Option", ty>>
TVec(ty) == <<"Vec", ty>>
TMap(ty) == <<"Map", ty>>
TStruct(name) == <<"Struct", name>>

RNone == <<"None">>
RSome(v) == <<"Some", v>>
RStruct(name, f) == <<"Struct", name, f>>

\* One field of a derived struct: its JSON key (after serde(rename)), its
\* type, #[serde(default)], #[serde(deserialize_with)], and
\* #[serde(skip_serializing_if = "Option::is_none")].
Field(key, ty) ==
    [key |-> key, ty |-> ty, dflt |-> FALSE, with |-> "", skip_none |-> FALSE]
FieldDefault(key, ty) ==
    [key |-> key, ty |-> ty, dflt |-> TRUE, with |-> "", skip_none |-> FALSE]
FieldSkipNone(key, ty) ==
    [key |-> key, ty |-> ty, dflt |-> FALSE, with |-> "", skip_none |-> TRUE]
FieldWith(key, ty, fn) ==
    [key |-> key, ty |-> ty, dflt |-> FALSE, with |-> fn, skip_none |-> FALSE]


(***************************************************************************)
(* The derived structs: their fields in declaration order.                 *)
(***************************************************************************)
\* errors::ErrorResponse: both fields required
ErrorResponseFields ==
    << Field("error_code", TString), Field("message", TString) >>

\* models::sql_statement::ErrorResponse (the error of a StatementStatus)
StatementErrorFields ==
    << Field("error_code", TOption(TString)), Field("message", TOption(TString)) >>

SqlStatementResponseFields ==
    << Field("statement_id", TOption(TString)),
       Field("status", TOption(TStruct("StatementStatus"))),
       Field("manifest", TOption(TStruct("Manifest"))),
       Field("result", TOption(TStruct("ResultData"))),
       Field("external_links", TOption(TVec(TStruct("ExternalLink")))),
       Field("error", TOption(TString)) >>

StatementStatusFields ==
    << Field("state", TString),
       Field("error", TOption(TStruct("StatementError"))) >>

\* a variant: chunks without #[serde(default)]
ManifestFields_required_chunks ==
    << Field("format", TString),
       Field("schema", TOption(TStruct("Schema"))),
       Field("chunks", TVec(TStruct("ChunkMetadata"))),
       Field("total_chunk_count", TI32),
       Field("total_row_count", TI64),
       Field("total_byte_count", TOption(TI64)),
       Field("truncated", TBool) >>

ManifestFields ==
    << Field("format", TString),
       Field("schema", TOption(TStruct("Schema"))),
       FieldDefault("chunks", TVec(TStruct("ChunkMetadata"))),
       Field("total_chunk_count", TI32),
       Field("total_row_count", TI64),
       Field("total_byte_count", TOption(TI64)),
       Field("truncated", TBool) >>

SchemaFields ==
    << FieldDefault("columns", TVec(TStruct("ColumnDescription"))) >>

ColumnDescriptionFields ==
    << Field("name", TString), Field("type_name", TString), Field("position", TI32) >>

ChunkMetadataFields ==
    << Field("chunk_index", TI32),
       Field("row_offset", TI64),
       Field("row_count", TI64),
       Field("byte_count", TOption(TI64)),
       Field("next_chunk_index", TOption(TI32)),
       Field("next_chunk_internal_link", TOption(TString)) >>

\* a variant: the two fields without skip_serializing_if
ResultDataFields_emit_null ==
    << Field("data_array", TOption(TVec(TVec(TOption(TString))))),
       Field("external_links", TOption(TVec(TStruct("ExternalLink")))) >>

ResultDataFields ==
    << FieldSkipNone("data_array", TOption(TVec(TVec(TOption(TString))))),
       FieldSkipNone("external_links", TOption(TVec(TStruct("ExternalLink")))) >>

ExternalLinkFields ==
    << Field("chunk_index", TI32),
       Field("row_offset", TI64),
       Field("row_count", TI64),
       Field("byte_count", TI64),
       FieldSkipNone("next_chunk_index", TOption(TI32)),
       FieldSkipNone("next_chunk_internal_link", TOption(TString)),
       Field("external_link", TString),
       FieldWith("expiration", TOption(<<"DateTime">>), "deserialize_datetime") >>

JobRunResponseFields ==
    << Field("run_id", TI64), Field("number_in_job", TOption(TI64)) >>

AzureAttributesFields ==
    << Field("first_on_demand", TI32),
       Field("availability", TString),
       Field("spot_bid_max_price", TF64) >>

InstanceSourceFields ==
    << Field("node_type_id", TString) >>

TerminationReasonFields ==
    << Field("code", TString),
       Field("type", TString),
       Field("parameters", TMap(TString)) >>

ClusterSpecFields ==
    << Field("cluster_name", TString),
       Field("spark_version", TString),
       Field("spark_conf", TMap(TString)),
       Field("azure_attributes", TStruct("AzureAttributes")),
       Field("node_type_id", TString),
       Field("driver_node_type_id", TString),
       Field("custom_tags", TMap(TString)),
       Field("autotermination_minutes", TI64),
       Field("enable_elastic_disk", TBool),
       Field("single_user_name", TOption(TString)),
       Field("enable_local_disk_encryption", TBool),
       Field("data_security_mode", TString),
       Field("runtime_engine", TString),
       Field("num_workers", TI32) >>

ClusterInfoFields ==
    << Field("cluster_id", TString),
       Field("cluster_name", TString),
       Field("state", TString),
       Field("creator_user_name", TString),
       Field("spark_context_id", TOption(TI64)),
       Field("driver_healthy", TBool),
       Field("spark_version", TString),
       Field("spark_conf", TMap(TString)),
       Field("azure_attributes", TStruct("AzureAttributes")),
       Field("node_type_id", TString),
       Field("driver_node_type_id", TString),
       Field("custom_tags", TMap(TString)),
       Field("autotermination_minutes", TI64),
       Field("enable_elastic_disk", TBool),
       FieldDefault("disk_spec", TMap(TValue)),
       Field("cluster_source", TString),
       Field("single_user_name", TOption(TString)),
       Field("enable_local_disk_encryption", TBool),
       Field("instance_source", TStruct("InstanceSource")),
       Field("driver_instance_source", TStruct("InstanceSource")),
       Field("data_security_mode", TString),
       Field("runtime_engine", TString),
       Field("effective_spark_version", TString),
       Field("state_message", TString),
       Field("start_time", TOption(TI64)),
       Field("terminated_time", TOption(TI64)),
       Field("last_state_loss_time", TOption(TI64)),
       Field("last_activity_time", TOption(TI64)),
       Field("last_restarted_time", TOption(TI64)),
       Field("num_workers", TI32),
       Field("default_tags", TMap(TString)),
       Field("termination_reason", TStruct("TerminationReason")),
       Field("pinned_by_user_name", TOption(TString)),
       Field("init_scripts_safe_mode", TBool),
       Field("spec", TStruct("ClusterSpec")) >>

SqlParameterFields ==
    << Field("name", TString),
       Field("value", TOption(TString)),
       Field("type", TOption(TString)) >>

SqlStatementRequestFields ==
    << Field("statement", TString),
       Field("warehouse_id", TString),
       Field("catalog", TOption(TString)),
       Field("schema", TOption(TString)),
       Field("parameters", TOption(TVec(TStruct("SqlParameter")))),
       Field("row_limit", TOption(TI64)),
       Field("byte_limit", TOption(TI64)),
       Field("disposition", TString),
       Field("format", TString),
       Field("wait_timeout", TOption(TString)),
       Field("on_wait_timeout", TOption(TString)) >>

QueueSettingsFields ==
    << Field("enabled", TBool) >>

JobRunRequestFields ==
    << Field("job_id", TI64),
       Field("idempotency_token", TOption(TString)),
       Field("queue", TOption(TStruct("QueueSettings"))),
       Field("jar_params", TOption(TVec(TString))),
       Field("notebook_params", TOption(TMap(TString))),
       Field("python_params", TOption(TVec(TString))),
       Field("spark_submit_params", TOption(TVec(TString))),
       Field("python_named_params", TOption(TMap(TString))),
       Field("pipeline_params", TOption(TMap(TBool))),
       Field("sql_params", TOption(TMap(TString))),
       Field("dbt_commands", TOption(TVec(TString))),
       Field("job_parameters", TOption(TMap(TString))) >>

Fields(name) ==
    CASE name = "ErrorResponse" -> ErrorResponseFields
      [] name = "SqlParameter" -> SqlParameterFields
      [] name = "SqlStatementRequest" -> SqlStatementRequestFields
      [] name = "QueueSettings" -> QueueSettingsFields
      [] name = "JobRunRequest" -> JobRunRequestFields
      [] name = "StatementError" -> StatementErrorFields
      [] name = "SqlStatementResponse" -> SqlStatementResponseFields
      [] name = "StatementStatus" -> StatementStatusFields
      [] name = "Manifest" -> ManifestFields
      [] name = "Schema" -> SchemaFields
      [] name = "ColumnDescription" -> ColumnDescriptionFields
      [] name = "ChunkMetadata" -> ChunkMetadataFields
      [] name = "ResultData" -> ResultDataFields
      [] name = "ExternalLink" -> ExternalLinkFields
      [] name = "JobRunResponse" -> JobRunResponseFields
      [] name = "AzureAttributes" -> AzureAttributesFields
      [] name = "InstanceSource" -> InstanceSourceFields
      [] name = "TerminationReason" -> TerminationReasonFields
      [] name = "ClusterSpec" -> ClusterSpecFields
      [] name = "ClusterInfo" -> ClusterInfoFields


\* the name serde prints for a struct (the Rust identifier)
RustName(name) == IF name = "StatementError" THEN "ErrorResponse" ELSE name

(***************************************************************************)
(* Deserialization: serde's derived Deserialize over serde_json.           *)
(* A result is <<"Ok", value>> or <<"Err", text>>.                         *)
(***************************************************************************)
Ok(v) == <<"Ok", v>>
Err(e) == <<"Err", e>>
IsOk(r) == r[1] = "Ok"
IsErr(r) == r[1] = "Err"

EmptyFcn == [x \in {} |-> TRUE]
Extend(f, k, v) == [x \in (DOMAIN f) \cup {k} |-> IF x = k THEN v ELSE f[x]]
Least(S) == CHOOSE n \in S : \A m \in S : n <= m

\* chrono: <DateTime<Utc> as FromStr>::from_str, on the texts of the model:
\* an RFC 3339 text gives its instant (seconds since the epoch, in UTC).
ParseDateTime(s) ==
    CASE s = "2024-01-01T00:00:00Z" -> Ok(<<"DateTime", 1704067200>>)
      [] s = "2024-01-01T01:00:00+01:00" -> Ok(<<"DateTime", 1704067200>>)
      [] s = "2024-06-30T12:00:00Z" -> Ok(<<"DateTime", 1719748800>>)
      [] s = "" -> Err("premature end of input")
      [] OTHER -> Err("input contains invalid characters")

\* Default::default() of a field type with #[serde(default)]
Default(ty) ==
    CASE ty[1] = "Vec" -> <<"Vec", <<>>>>
      [] ty[1] = "Map" -> <<"Map", EmptyFcn>>
      [] ty[1] = "Option" -> RNone

\* what a key absent from the object gives: a default, None for an Option
\* (serde's missing_field), or nothing
Defaultable(f) == f.dflt \/ (f.with = "" /\ f.ty[1] = "Option")
MissingValue(f) == IF f.dflt THEN Default(f.ty) ELSE RNone

FieldIndex(fs, k) == {n \in 1..Len(fs) : fs[n].key = k}
FieldKeys(fs) == {fs[n].key : n \in 1..Len(fs)}

RECURSIVE De(_, _)
RECURSIVE DeVec(_, _, _, _)
RECURSIVE DeMap(_, _, _, _)
RECURSIVE DeStructMap(_, _, _, _)
RECURSIVE DeStructSeq(_, _, _, _)
RECURSIVE DeField(_, _)

\* a variant: a text that is no date-time dropped (.ok()) rather than
\* reported
deserialize_datetime_lenient(j) ==
    LET s == De(TOption(TString), j)
    IN  IF IsErr(s) THEN s
        ELSE IF s[2] = RNone THEN Ok(RNone)
        ELSE LET p == ParseDateTime(s[2][2])
             IN  IF IsErr(p) THEN Ok(RNone) ELSE Ok(RSome(p[2]))

\* fn deserialize_datetime: an Option<String>, then the text parsed
deserialize_datetime(j) ==
    LET s == De(TOption(TString), j)
    IN  IF IsErr(s) THEN s
        ELSE IF s[2] = RNone THEN Ok(RNone)
        ELSE LET p == ParseDateTime(s[2][2])
             IN  IF IsErr(p) THEN p ELSE Ok(RSome(p[2]))

DeField(f, j) ==
    IF f.with = "deserialize_datetime" THEN deserialize_datetime(j)
    ELSE De(f.ty, j)

\* every field read: the absent ones filled in, in declaration order
FinishStruct(name, acc) ==
    LET fs == Fields(name)
        missing == {n \in 1..Len(fs) : fs[n].key \notin DOMAIN acc /\ ~Defaultable(fs[n])}
    IN  IF missing # {}
        THEN Err("missing field '" \o fs[Least(missing)].key \o "'")
        ELSE Ok(RStruct(name,
                [k \in FieldKeys(fs) |->
                    IF k \in DOMAIN acc THEN acc[k]
                    ELSE MissingValue(fs[CHOOSE n \in FieldIndex(fs, k) : TRUE])]))

\* visit_map: the members in the order of the text; an unknown key is
\* ignored, a repeated one is an error
DeStructMap(name, pairs, i, acc) ==
    IF i > Len(pairs) THEN FinishStruct(name, acc)
    ELSE LET k == pairs[i][1]
             fs == Fields(name)
             idx == FieldIndex(fs, k)
         IN  IF idx = {} THEN DeStructMap(name, pairs, i + 1, acc)
             ELSE IF k \in DOMAIN acc THEN Err("duplicate field '" \o k \o "'")
             ELSE LET r == DeField(fs[CHOOSE n \in idx : TRUE], pairs[i][2])
                  IN  IF IsErr(r) THEN r
                      ELSE DeStructMap(name, pairs, i + 1, Extend(acc, k, r[2]))

\* visit_seq: the elements are the fields in declaration order
DeStructSeq(name, elems, i, acc) ==
    LET fs == Fields(name)
    IN  IF i > Len(fs)
        THEN IF Len(elems) > Len(fs) THEN Err("trailing characters")
             ELSE Ok(RStruct(name, acc))
        ELSE IF i > Len(elems)
             THEN IF fs[i].dflt
                  THEN DeStructSeq(name, elems, i + 1, Extend(acc, fs[i].key, Default(fs[i].ty)))
                  ELSE Err("invalid length " \o DisplayInt(i - 1) \o ", expected struct "
                           \o RustName(name) \o " with " \o DisplayInt(Len(fs))
                           \o (IF Len(fs) = 1 THEN " element" ELSE " elements"))
             ELSE LET r == DeField(fs[i], elems[i])
                  IN  IF IsErr(r) THEN r
                      ELSE DeStructSeq(name, elems, i + 1, Extend(acc, fs[i].key, r[2]))

DeVec(ty, elems, i, acc) ==
    IF i > Len(elems) THEN Ok(<<"Vec", acc>>)
    ELSE LET r == De(ty, elems[i])
         IN  IF IsErr(r) THEN r ELSE DeVec(ty, elems, i + 1, Append(acc, r[2]))

\* a HashMap: a repeated key keeps its last value
DeMap(ty, pairs, i, acc) ==
    IF i > Len(pairs) THEN Ok(<<"Map", acc>>)
    ELSE LET r == De(ty, pairs[i][2])
         IN  IF IsErr(r) THEN r ELSE DeMap(ty, pairs, i + 1, Extend(acc, pairs[i][1], r[2]))

\* The integers of the model's texts all fit an i32, so the range errors
\* of i32 and i64 do not arise.
De(ty, j) ==
    CASE ty[1] = "String" ->
            IF j[1] = "str" THEN Ok(j[2]) ELSE InvalidType(j, "a string")
      [] ty[1] \in {"i32", "i64"} ->
            IF j[1] = "num" THEN Ok(j[2]) ELSE InvalidType(j, ty[1])
      [] ty[1] = "f64" ->
            IF j[1] \in {"num", "float"} THEN Ok(j) ELSE InvalidType(j, "f64")
      [] ty[1] = "bool" ->
            IF j[1] = "bool" THEN Ok(j[2]) ELSE InvalidType(j, "a boolean")
      [] ty[1] = "Value" -> Ok(j)
      [] ty[1] = "Option" ->
            IF j = JNull THEN Ok(RNone)
            ELSE LET r == De(ty[2], j) IN IF IsErr(r) THEN r ELSE Ok(RSome(r[2]))
      [] ty[1] = "Vec" ->
            IF j[1] = "arr" THEN DeVec(ty[2], j[2], 1, <<>>)
            ELSE InvalidType(j, "a sequence")
      [] ty[1] = "Map" ->
            IF j[1] = "obj" THEN DeMap(ty[2], j[2], 1, EmptyFcn)
            ELSE InvalidType(j, "a map")
      [] ty[1] = "Struct" ->
            IF j[1] = "obj" THEN DeStructMap(ty[2], j[2], 1, EmptyFcn)
            ELSE IF j[1] = "arr" THEN DeStructSeq(ty[2], j[2], 1, EmptyFcn)
            ELSE InvalidType(j, "struct " \o RustName(ty[2]))

\* a text: that of a JSON value, or one that is no JSON
Json(v) == <<"json", v>>
Raw(s) == <<"raw", s>>

\* serde_json::from_str::<T>: the text parsed as JSON, then as a T
from_str(ty, text) ==
    IF text[1] = "json" THEN De(ty, text[2])
    ELSE IF text[2] = "" THEN Err("EOF while parsing a value")
    ELSE Err("expected value")


(***************************************************************************)
(* Serialization: serde's derived Serialize into serde_json.  A struct is  *)
(* an object of its fields in declaration order; None is null, or left out *)
(* under skip_serializing_if = "Option::is_none".                          *)
(***************************************************************************)
\* chrono's Serialize of a DateTime<Utc>: its RFC 3339 text
FormatDateTime(d) ==
    CASE d[2] = 1704067200 -> "2024-01-01T00:00:00Z"
      [] d[2] = 1719748800 -> "2024-06-30T12:00:00Z"

RECURSIVE Ser(_, _)
RECURSIVE SerFields(_, _, _)
RECURSIVE SerVec(_, _, _)
RECURSIVE SerMap(_, _, _)

SerVec(ty, elems, i) ==
    IF i > Len(elems) THEN <<>>
    ELSE <<Ser(ty, elems[i])>> \o SerVec(ty, elems, i + 1)

\* a HashMap is written in its iteration order, which Rust leaves open: here
\* some order of the keys
SerMap(ty, f, keys) ==
    IF keys = {} THEN <<>>
    ELSE LET k == CHOOSE x \in keys : TRUE
         IN  <<<<k, Ser(ty, f[k])>>>> \o SerMap(ty, f, keys \ {k})

SerFields(fs, f, i) ==
    IF i > Len(fs) THEN <<>>
    ELSE IF fs[i].skip_none /\ f[fs[i].key] = RNone THEN SerFields(fs, f, i + 1)
    ELSE <<<<fs[i].key, Ser(fs[i].ty, f[fs[i].key])>>>> \o SerFields(fs, f, i + 1)

Ser(ty, v) ==
    CASE ty[1] = "String" -> JStr(v)
      [] ty[1] \in {"i32", "i64"} -> JNum(v)
      [] ty[1] = "f64" -> v
      [] ty[1] = "bool" -> JBool(v)
      [] ty[1] = "Value" -> v
      [] ty[1] = "DateTime" -> JStr(FormatDateTime(v))
      [] ty[1] = "Option" -> IF v = RNone THEN JNull ELSE Ser(ty[2], v[2])
      [] ty[1] = "Vec" -> JArr(SerVec(ty[2], v[2], 1))
      [] ty[1] = "Map" -> JObj(SerMap(ty[2], v[2], DOMAIN v[2]))
      [] ty[1] = "Struct" -> JObj(SerFields(Fields(ty[2]), v[3], 1))

(***************************************************************************)
(* Error taxonomy (errors/http.rs).                                        *)
(***************************************************************************)
HttpErrorKinds ==
    { "BadRequest", "Unauthorized", "PermissionDenied", "NotFound",
      "RequestLimitExceeded", "InternalServerError", "TemporarilyUnavailable",
      "InternalError" }

HttpError(kind, message) == [kind |-> kind, message |-> message]

\* a variant: a code that is not known gets a kind of its own
from_error_response_unrecognized(response) ==
    CASE response.error_code \in {"BAD_REQUEST", "INVALID_PARAMETER_VALUE"} ->
            HttpError("BadRequest", response.message)
      [] response.error_code = "UNAUTHORIZED" ->
            HttpError("Unauthorized", response.message)
      [] response.error_code = "PERMISSION_DENIED" ->
            HttpError("PermissionDenied", response.message)
      [] response.error_code = "NOT_FOUND" ->
            HttpError("NotFound", response.message)
      [] response.error_code = "REQUEST_LIMIT_EXCEEDED" ->
            HttpError("RequestLimitExceeded", response.message)
      [] response.error_code = "INTERNAL_SERVER_ERROR" ->
            HttpError("InternalServerError", response.message)
      [] response.error_code = "TEMPORARILY_UNAVAILABLE" ->
            HttpError("TemporarilyUnavailable", response.message)
      [] OTHER ->
            HttpError("InternalError", response.message)

\* HttpError::from_error_response
from_error_response(response) ==
    CASE response.error_code \in {"BAD_REQUEST", "INVALID_PARAMETER_VALUE"} ->
            HttpError("BadRequest", response.message)
      [] response.error_code = "UNAUTHORIZED" ->
            HttpError("Unauthorized", response.message)
      [] response.error_code = "PERMISSION_DENIED" ->
            HttpError("PermissionDenied", response.message)
      [] response.error_code = "NOT_FOUND" ->
            HttpError("NotFound", response.message)
      [] response.error_code = "REQUEST_LIMIT_EXCEEDED" ->
            HttpError("RequestLimitExceeded", response.message)
      [] response.error_code = "INTERNAL_SERVER_ERROR" ->
            HttpError("InternalServerError", response.message)
      [] response.error_code = "TEMPORARILY_UNAVAILABLE" ->
            HttpError("TemporarilyUnavailable", response.message)
      [] OTHER ->
            HttpError("InternalServerError", response.message)

(***************************************************************************)
(* HTTP pieces the dispatcher relies on (http, reqwest).                   *)
(***************************************************************************)
\* StatusCode::canonical_reason
CanonicalReason(status) ==
    CASE status = 200 -> "OK"
      [] status = 201 -> "Created"
      [] status = 202 -> "Accepted"
      [] status = 204 -> "No Content"
      [] status = 400 -> "Bad Request"
      [] status = 401 -> "Unauthorized"
      [] status = 403 -> "Forbidden"
      [] status = 404 -> "Not Found"
      [] status = 429 -> "Too Many Requests"
      [] status = 500 -> "Internal Server Error"
      [] status = 502 -> "Bad Gateway"
      [] status = 503 -> "Service Unavailable"
      [] OTHER -> "<unknown status code>"

\* <StatusCode as Display>: the number, a space, the canonical reason
DisplayStatus(status) == DisplayInt(status) \o " " \o CanonicalReason(status)

\* "Bearer " as bytes
BearerPrefix == <<66, 101, 97, 114, 101, 114, 32>>

\* HeaderValue::from_str: a tab or a visible ASCII byte each (the bytes of the
\* model are below 128)
ParseHeaderValue(bytes) ==
    IF \A i \in 1..Len(bytes) : bytes[i] = 9 \/ (bytes[i] >= 32 /\ bytes[i] < 127)
    THEN Ok(bytes)
    ELSE Err("failed to parse header value")

\* IntoUrl for a text <<scheme, authority, rest>>: an absolute http(s) URL
\* with a host
IntoUrl(url) ==
    IF url[1] \in {"http://", "https://"} /\ url[2] # ""
    THEN Ok(url)
    ELSE Err("builder error: relative URL without a base")


(***************************************************************************)
(* The session (services/databricks_session.rs).                           *)
(***************************************************************************)
\* DatabricksSession::with_active_pools
with_active_pools(pool_max_idle_per_host, config) ==
    [ client |-> [ pool_max_idle_per_host |-> pool_max_idle_per_host,
                   danger_accept_invalid_certs |-> FALSE ],
      config |-> config ]

\* DatabricksSession::new
new(config) == with_active_pools(12, config)

\* DatabricksSession::with_unverified_ssl
with_unverified_ssl(config) ==
    [ client |-> [ pool_max_idle_per_host |-> 12,
                   danger_accept_invalid_certs |-> TRUE ],
      config |-> config ]

\* What an operation hands to send_databricks_request: the method, the
\* endpoint, the body (None, or Some of a type and a value) and the type T
\* the response is parsed as.
NoBody == RNone
SomeBody(ty, v) == <<"Some", ty, v>>

execute_sql_statement(request_body) ==
    [ method |-> "POST",
      endpoint |-> "api/2.0/sql/statements",
      body |-> SomeBody(TStruct("SqlStatementRequest"), request_body),
      ty |-> TStruct("SqlStatementResponse") ]

\* a variant: the statement's id appended without the "/"
get_sql_statement_status_no_slash(statement_id) ==
    [ method |-> "GET",
      endpoint |-> "api/2.0/sql/statements" \o statement_id,
      body |-> NoBody,
      ty |-> TStruct("SqlStatementResponse") ]

get_sql_statement_status(statement_id) ==
    [ method |-> "GET",
      endpoint |-> "api/2.0/sql/statements/" \o statement_id,
      body |-> NoBody,
      ty |-> TStruct("SqlStatementResponse") ]

get_sql_statement_result_chunk(statement_id, chunk_index) ==
    [ method |-> "GET",
      endpoint |-> "api/2.0/sql/statements/" \o statement_id
                   \o "/result/chunks/" \o DisplayInt(chunk_index),
      body |-> NoBody,
      ty |-> TStruct("ResultData") ]

get_cluster_info(cluster_id) ==
    [ method |-> "GET",
      endpoint |-> "api/2.0/clusters/get?cluster_id=" \o cluster_id,
      body |-> NoBody,
      ty |-> TStruct("ClusterInfo") ]

\* a variant: the Jobs API 2.0 path
execute_job_run_v20(request_body) ==
    [ method |-> "POST",
      endpoint |-> "api/2.0/jobs/run-now",
      body |-> SomeBody(TStruct("JobRunRequest"), request_body),
      ty |-> TStruct("JobRunResponse") ]

execute_job_run(request_body) ==
    [ method |-> "POST",
      endpoint |-> "api/2.1/jobs/run-now",
      body |-> SomeBody(TStruct("JobRunRequest"), request_body),
      ty |-> TStruct("JobRunResponse") ]

\* a call of a session method: the method's name and its arguments
Invoke(a) ==
    CASE a.op = "execute_sql_statement" -> execute_sql_statement(a.request_body)
      [] a.op = "get_sql_statement_status" -> get_sql_statement_status(a.statement_id)
      [] a.op = "get_sql_statement_result_chunk" ->
            get_sql_statement_result_chunk(a.statement_id, a.chunk_index)
      [] a.op = "get_cluster_info" -> get_cluster_info(a.cluster_id)
      [] a.op = "execute_job_run" -> execute_job_run(a.request_body)

NoRequest ==
    [ method |-> "", url |-> <<"", "", "">>, authorization |-> <<>>,
      content_type |-> "", body |-> RNone ]

\* send_databricks_request up to send(): the URL, the Authorization header
\* (parse().unwrap() panics on a value that is no header value), the
\* builder, the JSON body when there is one.
BuildRequest(s, method, endpoint, body) ==
    LET url == <<s.config.databricks_host[1], s.config.databricks_host[2], "/" \o endpoint>>
        value == ParseHeaderValue(BearerPrefix \o s.config.databricks_token)
    IN  IF IsErr(value) THEN <<"Panic", value[2]>>
        ELSE <<"Request",
               [ method |-> method,
                 url |-> url,
                 authorization |-> value[2],
                 content_type |-> IF body = NoBody THEN "" ELSE "application/json",
                 body |-> IF body = NoBody THEN RNone ELSE RSome(Ser(body[2], body[3])) ]>>

\* a variant: a failure of send() that is no timeout wrapped as InternalError
SendError_wrapped(err) ==
    IF err.timeout THEN HttpError("TemporarilyUnavailable", err.text)
    ELSE HttpError("InternalError", err.text)

\* a variant: is_timeout() not asked
SendError_no_timeout(err) == HttpError("InternalServerError", err.text)

\* the map_err of send(): a timeout, or any other failure
SendError(err) ==
    IF err.timeout THEN HttpError("TemporarilyUnavailable", err.text)
    ELSE HttpError("InternalServerError", err.text)

\* a variant: the status left out of the message
FallbackErrorResponse_no_status(status) ==
    [error_code |-> "UNKNOWN", message |-> "Unknown error"]

\* handle_response: the ErrorResponse made up when the body is none
FallbackErrorResponse(status) ==
    [ error_code |-> "UNKNOWN",
      message |-> "Unknown error with status code: " \o DisplayStatus(status) ]

\* a variant: the kind taken from the status where the status has one
ParseError_by_status(status, body_text) ==
    LET parsed == from_str(TStruct("ErrorResponse"), body_text)
        error == IF IsOk(parsed)
                 THEN [ error_code |-> parsed[2][3].error_code,
                        message |-> parsed[2][3].message ]
                 ELSE FallbackErrorResponse(status)
    IN  CASE status = 403 -> Err(HttpError("PermissionDenied", error.message))
          [] status = 404 -> Err(HttpError("NotFound", error.message))
          [] OTHER -> Err(from_error_response(error))

\* handle_response, the arm of every other status: the body parsed as an
\* ErrorResponse, or the made-up one, then classified
ParseError(status, body_text) ==
    LET parsed == from_str(TStruct("ErrorResponse"), body_text)
        error == IF IsOk(parsed)
                 THEN [ error_code |-> parsed[2][3].error_code,
                        message |-> parsed[2][3].message ]
                 ELSE FallbackErrorResponse(status)
    IN  Err(from_error_response(error))

\* a variant: a body that is no T tried as an ErrorResponse
ParseSuccess_retry_as_error(ty, body_text) ==
    LET parsed == from_str(ty, body_text)
    IN  IF IsOk(parsed) THEN parsed ELSE ParseError(200, body_text)

\* handle_response, the arm StatusCode::OK: the body parsed as a T, a parse
\* error mapped to InternalServerError
ParseSuccess(ty, body_text) ==
    LET parsed == from_str(ty, body_text)
    IN  IF IsOk(parsed) THEN parsed
        ELSE Err(HttpError("InternalServerError", parsed[2]))

\* a variant: every 2xx status taken as success
IsStatusOk_2xx(status) == status \in 200..299

\* handle_response: the match on the status
IsStatusOk(status) == status = 200

\* the text read from the response, or the stand-in of unwrap_or_else
BodyText(text) ==
    IF IsOk(text) THEN text[2] ELSE Raw("Failed to get response text")

\* DatabricksSession::handle_response, from the status and the result of
\* response.text().await
handle_response(ty, status, text) ==
    IF IsStatusOk(status) THEN ParseSuccess(ty, BodyText(text))
    ELSE ParseError(status, BodyText(text))

(***************************************************************************)
(* The free functions (services/sql_service.rs, cluster_service.rs) and    *)
(* their dispatcher (services/databricks_request.rs), which take the host  *)
(* and the token as arguments and make a client of their own.              *)
(***************************************************************************)
sql_service_execute_sql_statement(request_body) ==
    [ method |-> "POST",
      endpoint |-> "api/2.0/sql/statements",
      body |-> SomeBody(TStruct("SqlStatementRequest"), request_body),
      ty |-> TStruct("SqlStatementResponse") ]

sql_service_get_sql_statement_status(statement_id) ==
    [ method |-> "GET",
      endpoint |-> "api/2.0/sql/statements/" \o statement_id,
      body |-> NoBody,
      ty |-> TStruct("SqlStatementResponse") ]

sql_service_get_sql_statement_result_chunk(statement_id, chunk_index) ==
    [ method |-> "GET",
      endpoint |-> "api/2.0/sql/statements/" \o statement_id
                   \o "/result/chunks/" \o DisplayInt(chunk_index),
      body |-> NoBody,
      ty |-> TStruct("ResultData") ]

cluster_service_get_cluster_info(cluster_id) ==
    [ method |-> "GET",
      endpoint |-> "api/2.0/clusters/get?cluster_id=" \o cluster_id,
      body |-> NoBody,
      ty |-> TStruct("ClusterInfo") ]

\* a call of a free function: its name and its arguments
InvokeFunction(a) ==
    CASE a.op = "execute_sql_statement" -> sql_service_execute_sql_statement(a.request_body)
      [] a.op = "get_sql_statement_status" ->
            sql_service_get_sql_statement_status(a.statement_id)
      [] a.op = "get_sql_statement_result_chunk" ->
            sql_service_get_sql_statement_result_chunk(a.statement_id, a.chunk_index)
      [] a.op = "get_cluster_info" -> cluster_service_get_cluster_info(a.cluster_id)

\* send_databricks_request up to send(): Client::new(), the URL, the header
\* map with Authorization (parse().unwrap()), the builder, the JSON body
send_databricks_request_build(host, token, method, endpoint, body) ==
    LET url == <<host[1], host[2], "/" \o endpoint>>
        value == ParseHeaderValue(<<66, 101, 97, 114, 101, 114, 32>> \o token)
    IN  IF IsErr(value) THEN <<"Panic", value[2]>>
        ELSE <<"Request",
               [ method |-> method,
                 url |-> url,
                 authorization |-> value[2],
                 content_type |-> IF body = NoBody THEN "" ELSE "application/json",
                 body |-> IF body = NoBody THEN RNone ELSE RSome(Ser(body[2], body[3])) ]>>

\* send_databricks_request: the map_err of send()
send_databricks_request_map_err(err) ==
    IF err.timeout THEN HttpError("TemporarilyUnavailable", err.text)
    ELSE HttpError("InternalServerError", err.text)

\* a variant: every status below 300 taken as success
send_databricks_request_respond_2xx(ty, status, text) ==
    LET body_text == IF IsOk(text) THEN text[2] ELSE Raw("Failed to get response text")
    IN  IF status < 300
        THEN LET parsed == from_str(ty, body_text)
             IN  IF IsOk(parsed) THEN parsed
                 ELSE Err(HttpError("InternalServerError", parsed[2]))
        ELSE LET parsed == from_str(TStruct("ErrorResponse"), body_text)
                 error == IF IsOk(parsed)
                          THEN [ error_code |-> parsed[2][3].error_code,
                                 message |-> parsed[2][3].message ]
                          ELSE [ error_code |-> "UNKNOWN",
                                 message |-> "Unknown error with status code: "
                                             \o DisplayStatus(status) ]
             IN  Err(from_error_response(error))

\* send_databricks_request from the response on: the status, the text of the
\* body or its stand-in, and the match on the status
send_databricks_request_respond(ty, status, text) ==
    LET body_text == IF IsOk(text) THEN text[2] ELSE Raw("Failed to get response text")
    IN  IF status = 200
        THEN LET parsed == from_str(ty, body_text)
             IN  IF IsOk(parsed) THEN parsed
                 ELSE Err(HttpError("InternalServerError", parsed[2]))
        ELSE LET parsed == from_str(TStruct("ErrorResponse"), body_text)
                 error == IF IsOk(parsed)
                          THEN [ error_code |-> parsed[2][3].error_code,
                                 message |-> parsed[2][3].message ]
                          ELSE [ error_code |-> "UNKNOWN",
                                 message |-> "Unknown error with status code: "
                                             \o DisplayStatus(status) ]
             IN  Err(from_error_response(error))

(***************************************************************************)
(* Inputs: configurations, call arguments, what the transport answers.     *)
(***************************************************************************)
\* "dapi1", and a token with a line feed in it
GoodToken == <<100, 97, 112, 105, 49>>
NewlineToken == <<100, 97, 10, 112>>

GoodHost == <<"https://", "adb-1.azuredatabricks.net">>
NoSchemeHost == <<"", "adb-1.azuredatabricks.net">>

Configs ==
    { [databricks_host |-> h, databricks_token |-> k] :
        h \in {GoodHost, NoSchemeHost}, k \in {GoodToken, NewlineToken} }

Sessions ==
    {new(c) : c \in Configs} \cup {with_active_pools(4, c) : c \in Configs}
        \cup {with_unverified_ssl(c) : c \in Configs}

\* the request of bin/main.rs
InlineStatement ==
    RStruct("SqlStatementRequest",
        [ statement |-> "SELECT * FROM range(10)",
          warehouse_id |-> "abcdefg123456789",
          catalog |-> RNone, schema |-> RNone, parameters |-> RNone,
          row_limit |-> RNone, byte_limit |-> RNone,
          disposition |-> "INLINE", format |-> "JSON_ARRAY",
          wait_timeout |-> RSome("10s"), on_wait_timeout |-> RSome("CONTINUE") ])

ExternalStatement ==
    RStruct("SqlStatementRequest",
        [ statement |-> "SELECT :n",
          warehouse_id |-> "abcdefg123456789",
          catalog |-> RSome("main"), schema |-> RNone,
          parameters |-> RSome(<<"Vec", <<
              RStruct("SqlParameter",
                  [name |-> "n", value |-> RSome("1"), type |-> RNone]) >> >>),
          row_limit |-> RSome(10), byte_limit |-> RNone,
          disposition |-> "EXTERNAL_LINKS", format |-> "CSV",
          wait_timeout |-> RNone, on_wait_timeout |-> RNone ])

JobRun ==
    RStruct("JobRunRequest",
        [ job_id |-> 42,
          idempotency_token |-> RSome("tok-1"),
          queue |-> RSome(RStruct("QueueSettings", [enabled |-> TRUE])),
          jar_params |-> RNone,
          notebook_params |-> RSome(<<"Map", Extend(EmptyFcn, "day", "mon")>>),
          python_params |-> RNone, spark_submit_params |-> RNone,
          python_named_params |-> RNone, pipeline_params |-> RNone,
          sql_params |-> RNone, dbt_commands |-> RNone, job_parameters |-> RNone ])

Args(op, statement_id, chunk_index, cluster_id, request_body) ==
    [ op |-> op, statement_id |-> statement_id, chunk_index |-> chunk_index,
      cluster_id |-> cluster_id, request_body |-> request_body ]

NoArgs == Args("", "", 0, "", RNone)

CallArgs ==
    {Args("execute_sql_statement", "", 0, "", b) : b \in {InlineStatement, ExternalStatement}}
    \cup {Args("get_sql_statement_status", id, 0, "", RNone) : id \in {"01ee-a1", ""}}
    \cup {Args("get_sql_statement_result_chunk", "01ee-a1", i, "", RNone) : i \in {0, 12, -1}}
    \cup {Args("get_cluster_info", "", 0, "0923-164208-meows279", RNone)}
    \cup {Args("execute_job_run", "", 0, "", JobRun)}


\* ---- response bodies ----

ErrorBody(code, message) ==
    Json(JObj(<< <<"error_code", JStr(code)>>, <<"message", JStr(message)>> >>))

KnownCodes ==
    { "BAD_REQUEST", "INVALID_PARAMETER_VALUE", "UNAUTHORIZED", "PERMISSION_DENIED",
      "NOT_FOUND", "REQUEST_LIMIT_EXCEEDED", "INTERNAL_SERVER_ERROR",
      "TEMPORARILY_UNAVAILABLE" }
OtherCodes == {"WHATEVER", "UNKNOWN", "not_found", ""}
ErrorCodes == KnownCodes \cup OtherCodes

\* bodies that are an ErrorResponse: the two members, in either order, with
\* or without members the struct does not know, or as an array of the two
ErrorBodies ==
    {ErrorBody(c, "x") : c \in ErrorCodes}
    \cup { ErrorBody("PERMISSION_DENIED", "no access"),
           Json(JObj(<< <<"message", JStr("gone")>>, <<"error_code", JStr("NOT_FOUND")>> >>)),
           Json(JObj(<< <<"error_code", JStr("BAD_REQUEST")>>,
                        <<"details", JArr(<<JNum(1)>>)>>,
                        <<"message", JStr("bad")>> >>)),
           Json(JArr(<<JStr("UNAUTHORIZED"), JStr("who")>>)) }

\* bodies that are no ErrorResponse
MalformedBodies ==
    { Raw(""),
      Raw("<html>502 Bad Gateway</html>"),
      Json(JStr("oops")),
      Json(JObj(<<>>)),
      Json(JObj(<< <<"error_code", JStr("NOT_FOUND")>> >>)),
      Json(JObj(<< <<"message", JStr("x")>> >>)),
      Json(JObj(<< <<"error_code", JNull>>, <<"message", JStr("x")>> >>)),
      Json(JObj(<< <<"error_code", JNum(404)>>, <<"message", JStr("x")>> >>)),
      Json(JObj(<< <<"error_code", JStr("NOT_FOUND")>>, <<"message", JStr("x")>>,
                   <<"error_code", JStr("BAD_REQUEST")>> >>)),
      Json(JArr(<<JStr("NOT_FOUND")>>)),
      Json(JArr(<<JStr("NOT_FOUND"), JStr("x"), JStr("y")>>)) }

LinkObject(expiration) ==
    JObj(<< <<"chunk_index", JNum(0)>>, <<"row_offset", JNum(0)>>,
            <<"row_count", JNum(2)>>, <<"byte_count", JNum(10)>>,
            <<"external_link", JStr("https://blob/1")>> >> \o expiration)

StatementBody(state, rest) ==
    Json(JObj(<< <<"statement_id", JStr("01ee-a1")>>,
                 <<"status", JObj(<< <<"state", JStr(state)>> >>)>> >> \o rest))

ManifestObject ==
    JObj(<< <<"format", JStr("JSON_ARRAY")>>,
            <<"schema", JObj(<< <<"column_count", JNum(1)>>,
                <<"columns", JArr(<< JObj(<< <<"name", JStr("id")>>,
                     <<"type_text", JStr("BIGINT")>>, <<"type_name", JStr("LONG")>>,
                     <<"position", JNum(0)>> >>) >>)>> >>)>>,
            <<"total_chunk_count", JNum(1)>>,
            <<"chunks", JArr(<< JObj(<< <<"chunk_index", JNum(0)>>,
                     <<"row_offset", JNum(0)>>, <<"row_count", JNum(2)>> >>) >>)>>,
            <<"total_row_count", JNum(2)>>,
            <<"truncated", JBool(FALSE)>> >>)

DataArray == JArr(<< JArr(<<JStr("0")>>), JArr(<<JNull>>) >>)

StatementBodies ==
    { StatementBody("PENDING", <<>>),
      StatementBody("SUCCEEDED",
          << <<"manifest", ManifestObject>>,
             <<"result", JObj(<< <<"chunk_index", JNum(0)>>, <<"row_offset", JNum(0)>>,
                                 <<"row_count", JNum(2)>>, <<"data_array", DataArray>> >>)>> >>),
      Json(JObj(<< <<"statement_id", JStr("01ee-a1")>>,
                   <<"status", JObj(<< <<"state", JStr("FAILED")>>,
                       <<"error", JObj(<< <<"error_code", JStr("BAD_REQUEST")>>,
                                          <<"message", JStr("syntax")>> >>)>> >>)>> >>)),
      Json(JObj(<< <<"statement_id", JStr("01ee-a1")>>, <<"status", JStr("PENDING")>> >>)) }

ResultBodies ==
    { Json(JObj(<< <<"data_array", DataArray>> >>)),
      Json(JObj(<< <<"external_links",
          JArr(<< LinkObject(<< <<"expiration", JStr("2024-01-01T00:00:00Z")>> >>) >>)>> >>)),
      Json(JObj(<< <<"external_links",
          JArr(<< LinkObject(<< <<"expiration", JStr("not-a-date")>> >>) >>)>> >>)) }

JobRunBodies ==
    { Json(JObj(<< <<"run_id", JNum(7)>>, <<"number_in_job", JNum(1)>> >>)),
      Json(JObj(<< <<"run_id", JNum(7)>> >>)),
      Json(JObj(<< <<"run_id", JStr("7")>> >>)) }

AzureObject ==
    JObj(<< <<"first_on_demand", JNum(1)>>, <<"availability", JStr("ON_DEMAND_AZURE")>>,
            <<"spot_bid_max_price", JFloat("-1.0")>> >>)

ClusterMembers ==
    << <<"cluster_id", JStr("0923-164208-meows279")>>,
       <<"cluster_name", JStr("dev")>>,
       <<"state", JStr("TERMINATED")>>,
       <<"creator_user_name", JStr("a@b.c")>>,
       <<"driver_healthy", JBool(TRUE)>>,
       <<"spark_version", JStr("13.3.x-scala2.12")>>,
       <<"spark_conf", JObj(<<>>)>>,
       <<"azure_attributes", AzureObject>>,
       <<"node_type_id", JStr("Standard_DS3_v2")>>,
       <<"driver_node_type_id", JStr("Standard_DS3_v2")>>,
       <<"custom_tags", JObj(<<>>)>>,
       <<"autotermination_minutes", JNum(30)>>,
       <<"enable_elastic_disk", JBool(TRUE)>>,
       <<"cluster_source", JStr("UI")>>,
       <<"enable_local_disk_encryption", JBool(FALSE)>>,
       <<"instance_source", JObj(<< <<"node_type_id", JStr("Standard_DS3_v2")>> >>)>>,
       <<"driver_instance_source", JObj(<< <<"node_type_id", JStr("Standard_DS3_v2")>> >>)>>,
       <<"data_security_mode", JStr("SINGLE_USER")>>,
       <<"runtime_engine", JStr("STANDARD")>>,
       <<"effective_spark_version", JStr("13.3.x-scala2.12")>>,
       <<"state_message", JStr("Inactive cluster terminated")>>,
       <<"start_time", JNum(1700000000)>>,
       <<"num_workers", JNum(0)>>,
       <<"default_tags", JObj(<< <<"Vendor", JStr("Databricks")>> >>)>>,
       <<"termination_reason", JObj(<< <<"code", JStr("INACTIVITY")>>,
             <<"type", JStr("SUCCESS")>>, <<"parameters", JObj(<<>>)>> >>)>>,
       <<"init_scripts_safe_mode", JBool(FALSE)>> >>

ClusterSpecObject ==
    JObj(<< <<"cluster_name", JStr("dev")>>,
            <<"spark_version", JStr("13.3.x-scala2.12")>>,
            <<"spark_conf", JObj(<<>>)>>,
            <<"azure_attributes", AzureObject>>,
            <<"node_type_id", JStr("Standard_DS3_v2")>>,
            <<"driver_node_type_id", JStr("Standard_DS3_v2")>>,
            <<"custom_tags", JObj(<<>>)>>,
            <<"autotermination_minutes", JNum(30)>>,
            <<"enable_elastic_disk", JBool(TRUE)>>,
            <<"enable_local_disk_encryption", JBool(FALSE)>>,
            <<"data_security_mode", JStr("SINGLE_USER")>>,
            <<"runtime_engine", JStr("STANDARD")>>,
            <<"num_workers", JNum(0)>> >>)

ClusterBodies ==
    { Json(JObj(ClusterMembers \o << <<"spec", ClusterSpecObject>> >>)),
      Json(JObj(ClusterMembers)) }

Bodies ==
    ErrorBodies \cup MalformedBodies \cup StatementBodies \cup ResultBodies
        \cup JobRunBodies \cup ClusterBodies

Statuses == {200, 201, 202, 204, 403, 404, 500, 599}

\* ---- texts given to the data model alone ----

\* a manifest without the member chunks, or without the member format
ManifestWithout(key) == JObj(SelectSeq(ManifestObject[2], LAMBDA m : m[1] # key))

\* The texts read: an external link with each expiration and one without
\* the member; a ResultData with its two members there, null or left out;
\* a manifest with and without its members; each alone and inside the
\* values that hold it; and every body of the transport.
DocBodies ==
    LET expirations ==
            { JNull, JStr("not-a-date"), JStr(""), JNum(1704067200),
              JStr("2024-01-01T00:00:00Z"), JStr("2024-01-01T01:00:00+01:00"),
              JStr("2024-06-30T12:00:00Z") }
        links ==
            {LinkObject(<< <<"expiration", e>> >>) : e \in expirations}
                \cup {LinkObject(<<>>)}
        results ==
            { JObj(d \o l) :
                d \in {<<>>, << <<"data_array", JNull>> >>, << <<"data_array", DataArray>> >>},
                l \in {<<>>, << <<"external_links", JNull>> >>,
                       << <<"external_links",
                            JArr(<< LinkObject(<< <<"expiration",
                                        JStr("2024-01-01T01:00:00+01:00")>> >>),
                                    LinkObject(<< <<"expiration", JNull>> >>) >>)>> >>} }
    IN  Bodies
        \cup {Json(o) : o \in links \cup results}
        \cup {Json(JObj(<< <<"external_links", JArr(<<o>>)>> >>)) : o \in links}
        \cup {StatementBody("SUCCEEDED", << <<"result", o>> >>) : o \in results}
        \cup {StatementBody("SUCCEEDED",
                  << <<"result", JObj(<< <<"external_links", JArr(<<o>>)>> >>)>> >>) :
               o \in links}
        \cup { Json(ManifestObject), Json(ManifestWithout("chunks")),
               Json(ManifestWithout("format")),
               Json(JObj(ManifestWithout("schema")[2] \o << <<"schema", JObj(<<>>)>> >>)),
               StatementBody("SUCCEEDED", << <<"manifest", ManifestWithout("chunks")>> >>) }

\* a type and a text to read as a value of it; the types are those that
\* derive Deserialize and are read from a text
Doc(ty, text) == [ty |-> ty, text |-> text]
Docs ==
    { Doc(TStruct(n), b) :
        n \in { "ErrorResponse", "SqlStatementResponse", "Manifest", "ResultData",
                "ExternalLink", "ClusterInfo", "JobRunResponse" },
        b \in DocBodies }

\* a send() that fails: reqwest's error, a timeout or not, and its text
Failure(timeout, text) == [timeout |-> timeout, text |-> text]
Failures ==
    { Failure(TRUE, "error sending request: operation timed out"),
      Failure(FALSE, "error sending request: connection refused") }


(***************************************************************************)
(* State.  Each task calls the methods of the one session; a call is a     *)
(* future with two suspension points, send().await and text().await.       *)
(***************************************************************************)
VARIABLES
    session,    \* the DatabricksSession: its client and its config
    pc,         \* per task: "idle", "send", "text", "done", "panicked"
    call,       \* per task: the arguments of the call in progress
    req,        \* per task: the request handed to the transport
    outcome,    \* per task: what the transport answered
    result,     \* per task: what the call returned
    calls,      \* number of calls made
    sends,      \* number of send() made
    doc,        \* data model alone: the type and the text given to from_str
    parsed,     \* data model alone: what from_str returned
    written,    \* data model alone: what to_string returned for that value
    reread,     \* data model alone: what from_str returned for that text
    stmt,       \* the remote statement: its state, "" before it is submitted
    observed    \* the responses the poller of the statement has been returned

calling == <<pc, call, req, outcome, result, calls, sends>>
data == <<doc, parsed, written, reread>>
remote == <<stmt, observed>>
vars == <<session, calling, data, remote>>

Tasks == 1..NumTasks

NoOutcome ==
    [ kind |-> "none", timeout |-> FALSE, text |-> "", status |-> 0,
      body |-> Raw(""), readable |-> TRUE ]
FailureOutcome(err) == [NoOutcome EXCEPT !.kind = "failure", !.timeout = err.timeout, !.text = err.text]
ResponseOutcome(status, body) == [NoOutcome EXCEPT !.kind = "response", !.status = status, !.body = body]

NoResult == <<"None">>

Init ==
    /\ session \in Sessions
    /\ pc = [t \in Tasks |-> "idle"]
    /\ call = [t \in Tasks |-> NoArgs]
    /\ req = [t \in Tasks |-> NoRequest]
    /\ outcome = [t \in Tasks |-> NoOutcome]
    /\ result = [t \in Tasks |-> NoResult]
    /\ calls = 0
    /\ sends = 0
    /\ doc = Doc(<<"None">>, Raw(""))
    /\ parsed = NoResult
    /\ written = NoResult
    /\ reread = NoResult
    /\ stmt = ""
    /\ observed = <<>>

\* A task calls a method and the future runs to its first suspension:
\* send_databricks_request builds the request (or panics) and calls send(),
\* which fails at once when the builder holds no URL.
Call(t, a) ==
    /\ pc[t] = "idle"
    /\ calls < MaxCalls
    /\ calls' = calls + 1
    /\ call' = [call EXCEPT ![t] = a]
    /\ LET o == Invoke(a)
           b == BuildRequest(session, o.method, o.endpoint, o.body)
       IN  IF b[1] = "Panic"
           THEN /\ pc' = [pc EXCEPT ![t] = "panicked"]
                /\ UNCHANGED <<req, outcome, result, sends>>
           ELSE /\ sends' = sends + 1
                /\ IF IsErr(IntoUrl(b[2].url))
                   THEN LET err == Failure(FALSE, IntoUrl(b[2].url)[2])
                        IN  /\ outcome' = [outcome EXCEPT ![t] = FailureOutcome(err)]
                            /\ result' = [result EXCEPT ![t] = Err(SendError(err))]
                            /\ pc' = [pc EXCEPT ![t] = "done"]
                            /\ UNCHANGED req
                   ELSE /\ req' = [req EXCEPT ![t] = b[2]]
                        /\ pc' = [pc EXCEPT ![t] = "send"]
                        /\ UNCHANGED <<outcome, result>>
    /\ UNCHANGED <<session, data, remote>>

\* send() fails: the map_err, and the ? returns the error
SendFails(t, err) ==
    /\ pc[t] = "send"
    /\ outcome' = [outcome EXCEPT ![t] = FailureOutcome(err)]
    /\ result' = [result EXCEPT ![t] = Err(SendError(err))]
    /\ pc' = [pc EXCEPT ![t] = "done"]
    /\ UNCHANGED <<session, call, req, calls, sends, data, remote>>

\* send() gives a response: handle_response reads the status and awaits the
\* text of the body
SendResponds(t, status, body) ==
    /\ pc[t] = "send"
    /\ outcome' = [outcome EXCEPT ![t] = ResponseOutcome(status, body)]
    /\ pc' = [pc EXCEPT ![t] = "text"]
    /\ UNCHANGED <<session, call, req, result, calls, sends, data, remote>>

\* a variant: the response kept in one place for all the calls, so that a
\* call reads that of the first task that waits for a text
TextCompletes_shared(t, readable) ==
    /\ pc[t] = "text"
    /\ outcome' = [outcome EXCEPT ![t].readable = readable]
    /\ LET u == Least({x \in Tasks : pc[x] = "text"})
       IN  result' = [result EXCEPT ![t] =
               handle_response(Invoke(call[t]).ty, outcome[u].status,
                   IF readable THEN Ok(outcome[u].body)
                   ELSE Err("error decoding response body"))]
    /\ pc' = [pc EXCEPT ![t] = "done"]
    /\ UNCHANGED <<session, call, req, calls, sends, data, remote>>

\* text() completes, with the body or with an error: handle_response
\* returns
TextCompletes(t, readable) ==
    /\ pc[t] = "text"
    /\ outcome' = [outcome EXCEPT ![t].readable = readable]
    /\ result' = [result EXCEPT ![t] =
            handle_response(Invoke(call[t]).ty, outcome[t].status,
                IF readable THEN Ok(outcome[t].body) ELSE Err("error decoding response body"))]
    /\ pc' = [pc EXCEPT ![t] = "done"]
    /\ UNCHANGED <<session, call, req, calls, sends, data, remote>>

\* the caller takes the result; the task may call again
Return(t) ==
    /\ pc[t] = "done"
    /\ pc' = [pc EXCEPT ![t] = "idle"]
    /\ call' = [call EXCEPT ![t] = NoArgs]
    /\ req' = [req EXCEPT ![t] = NoRequest]
    /\ outcome' = [outcome EXCEPT ![t] = NoOutcome]
    /\ result' = [result EXCEPT ![t] = NoResult]
    /\ UNCHANGED <<session, calls, sends, data, remote>>

\* A task calls a free function with the host and the token of the
\* configuration: send_databricks_request to its first suspension.
CallFunction(t, a) ==
    /\ pc[t] = "idle"
    /\ calls < MaxCalls
    /\ calls' = calls + 1
    /\ call' = [call EXCEPT ![t] = a]
    /\ LET o == InvokeFunction(a)
           b == send_databricks_request_build(session.config.databricks_host,
                    session.config.databricks_token, o.method, o.endpoint, o.body)
       IN  IF b[1] = "Panic"
           THEN /\ pc' = [pc EXCEPT ![t] = "panicked"]
                /\ UNCHANGED <<req, outcome, result, sends>>
           ELSE /\ sends' = sends + 1
                /\ IF IsErr(IntoUrl(b[2].url))
                   THEN LET err == Failure(FALSE, IntoUrl(b[2].url)[2])
                        IN  /\ outcome' = [outcome EXCEPT ![t] = FailureOutcome(err)]
                            /\ result' = [result EXCEPT ![t] =
                                   Err(send_databricks_request_map_err(err))]
                            /\ pc' = [pc EXCEPT ![t] = "fn_done"]
                            /\ UNCHANGED req
                   ELSE /\ req' = [req EXCEPT ![t] = b[2]]
                        /\ pc' = [pc EXCEPT ![t] = "fn_send"]
                        /\ UNCHANGED <<outcome, result>>
    /\ UNCHANGED <<session, data, remote>>

FunctionSendFails(t, err) ==
    /\ pc[t] = "fn_send"
    /\ outcome' = [outcome EXCEPT ![t] = FailureOutcome(err)]
    /\ result' = [result EXCEPT ![t] = Err(send_databricks_request_map_err(err))]
    /\ pc' = [pc EXCEPT ![t] = "fn_done"]
    /\ UNCHANGED <<session, call, req, calls, sends, data, remote>>

FunctionSendResponds(t, status, body) ==
    /\ pc[t] = "fn_send"
    /\ outcome' = [outcome EXCEPT ![t] = ResponseOutcome(status, body)]
    /\ pc' = [pc EXCEPT ![t] = "fn_text"]
    /\ UNCHANGED <<session, call, req, result, calls, sends, data, remote>>

FunctionTextCompletes(t, readable) ==
    /\ pc[t] = "fn_text"
    /\ outcome' = [outcome EXCEPT ![t].readable = readable]
    /\ result' = [result EXCEPT ![t] =
            send_databricks_request_respond(InvokeFunction(call[t]).ty, outcome[t].status,
                IF readable THEN Ok(outcome[t].body) ELSE Err("error decoding response body"))]
    /\ pc' = [pc EXCEPT ![t] = "fn_done"]
    /\ UNCHANGED <<session, call, req, calls, sends, data, remote>>

FunctionReturn(t) ==
    /\ pc[t] = "fn_done"
    /\ pc' = [pc EXCEPT ![t] = "idle"]
    /\ call' = [call EXCEPT ![t] = NoArgs]
    /\ req' = [req EXCEPT ![t] = NoRequest]
    /\ outcome' = [outcome EXCEPT ![t] = NoOutcome]
    /\ result' = [result EXCEPT ![t] = NoResult]
    /\ UNCHANGED <<session, calls, sends, data, remote>>

\* One caller, every input.
Caller == Least(Tasks)

Next ==
    \/ \E a \in CallArgs : Call(Caller, a)
    \/ \E err \in Failures : SendFails(Caller, err)
    \/ \E status \in Statuses, body \in Bodies : SendResponds(Caller, status, body)
    \/ \E readable \in BOOLEAN : TextCompletes(Caller, readable)
    \/ Return(Caller)
    \/ \E a \in {x \in CallArgs : x.op # "execute_job_run"} : CallFunction(Caller, a)
    \/ \E err \in Failures : FunctionSendFails(Caller, err)
    \/ \E status \in Statuses, body \in Bodies : FunctionSendResponds(Caller, status, body)
    \/ \E readable \in BOOLEAN : FunctionTextCompletes(Caller, readable)
    \/ FunctionReturn(Caller)

Spec == Init /\ [][Next]_vars


\* Several tasks on the one session, a few inputs.
ConcCallArgs ==
    { Args("get_sql_statement_status", "01ee-a1", 0, "", RNone),
      Args("get_cluster_info", "", 0, "0923-164208-meows279", RNone),
      Args("execute_job_run", "", 0, "", JobRun) }
ConcStatuses == {200, 403}
ConcBodies ==
    { ErrorBody("PERMISSION_DENIED", "no access"),
      Json(JObj(<< <<"run_id", JNum(7)>> >>)) }
ConcFailures == {Failure(TRUE, "error sending request: operation timed out")}

NextConc ==
    \E t \in Tasks :
        \/ \E a \in ConcCallArgs : Call(t, a)
        \/ \E err \in ConcFailures : SendFails(t, err)
        \/ \E status \in ConcStatuses, body \in ConcBodies : SendResponds(t, status, body)
        \/ \E readable \in BOOLEAN : TextCompletes(t, readable)
        \/ Return(t)

SpecConc == Init /\ [][NextConc]_vars

(***************************************************************************)
(* The data model alone: a text is read as a value of a type, the value is *)
(* written back as a text (when its type derives Serialize), and that text *)
(* is read again.                                                          *)
(***************************************************************************)
InitData ==
    /\ session = new([databricks_host |-> GoodHost, databricks_token |-> GoodToken])
    /\ pc = [t \in Tasks |-> "idle"]
    /\ call = [t \in Tasks |-> NoArgs]
    /\ req = [t \in Tasks |-> NoRequest]
    /\ outcome = [t \in Tasks |-> NoOutcome]
    /\ result = [t \in Tasks |-> NoResult]
    /\ calls = 0
    /\ sends = 0
    /\ doc \in Docs
    /\ parsed = NoResult
    /\ written = NoResult
    /\ reread = NoResult
    /\ stmt = ""
    /\ observed = <<>>

Deserialize ==
    /\ parsed = NoResult
    /\ parsed' = from_str(doc.ty, doc.text)
    /\ UNCHANGED <<session, calling, doc, written, reread, remote>>

\* serde_json::to_string of the value, when its type derives Serialize
\* (every type read here does but JobRunResponse)
Serialize ==
    /\ IsOk(parsed)
    /\ doc.ty # TStruct("JobRunResponse")
    /\ written = NoResult
    /\ written' = Ok(Json(Ser(doc.ty, parsed[2])))
    /\ UNCHANGED <<session, calling, doc, parsed, reread, remote>>

DeserializeWritten ==
    /\ IsOk(written)
    /\ reread = NoResult
    /\ reread' = from_str(doc.ty, written[2])
    /\ UNCHANGED <<session, calling, doc, parsed, written, remote>>

NextData == Deserialize \/ Serialize \/ DeserializeWritten

SpecData == InitData /\ [][NextData]_vars

(***************************************************************************)
(* A statement end to end: the caller submits the statement of bin/main.rs *)
(* through the session and asks for its status until a response says it    *)
(* is in a terminal state.  The remote service is not part of the library: *)
(* its statement is modelled as the specification describes it, PENDING,   *)
(* then RUNNING, then a terminal state, with the bodies of the Statement   *)
(* Execution API for each.  A call is one step here: the request built,    *)
(* the remote's answer at the time it answers, the result returned.        *)
(***************************************************************************)
Terminal == {"SUCCEEDED", "FAILED", "CANCELED", "CLOSED"}

\* the body the remote answers for its statement in a state
RemoteBody(state) ==
    CASE state = "SUCCEEDED" ->
            StatementBody(state,
                << <<"manifest", ManifestObject>>,
                   <<"result", JObj(<< <<"chunk_index", JNum(0)>>, <<"row_offset", JNum(0)>>,
                                       <<"row_count", JNum(2)>>, <<"data_array", DataArray>> >>)>> >>)
      [] state = "FAILED" ->
            Json(JObj(<< <<"statement_id", JStr("01ee-a1")>>,
                         <<"status", JObj(<< <<"state", JStr(state)>>,
                             <<"error", JObj(<< <<"error_code", JStr("BAD_REQUEST")>>,
                                                <<"message", JStr("syntax")>> >>)>> >>)>> >>))
      [] OTHER -> StatementBody(state, <<>>)

\* the remote on a request: a statement is made by a POST to the
\* statements, its state is told for a GET of it, anything else is refused
RemoteAnswer(r, state) ==
    IF r.method = "POST" /\ r.url[3] = "/api/2.0/sql/statements" /\ r.body # RNone
    THEN [status |-> 200, body |-> RemoteBody("PENDING"), state |-> "PENDING"]
    ELSE IF r.method = "GET" /\ state # "" /\ r.url[3] = "/api/2.0/sql/statements/01ee-a1"
    THEN [status |-> 200, body |-> RemoteBody(state), state |-> state]
    ELSE [status |-> 404, body |-> ErrorBody("NOT_FOUND", "no such statement"), state |-> state]

\* the state of the statement in a response returned
StateOf(r) == r[2][3].status[2][3].state

\* one call of a session method against the remote; observed keeps what
\* the call got and what it returned
CallRemote(t, a) ==
    /\ pc[t] = "idle"
    /\ calls < MaxCalls
    /\ calls' = calls + 1
    /\ LET o == Invoke(a)
           b == BuildRequest(session, o.method, o.endpoint, o.body)
       IN  IF b[1] = "Panic"
           THEN /\ pc' = [pc EXCEPT ![t] = "panicked"]
                /\ UNCHANGED <<sends, remote>>
           ELSE /\ sends' = sends + 1
                /\ pc' = pc
                /\ IF IsErr(IntoUrl(b[2].url))
                   THEN LET err == Failure(FALSE, IntoUrl(b[2].url)[2])
                        IN  /\ observed' = Append(observed,
                                   [ answer |-> FailureOutcome(err),
                                     result |-> Err(SendError(err)) ])
                            /\ stmt' = stmt
                   ELSE \/ \E err \in Failures :
                            /\ observed' = Append(observed,
                                   [ answer |-> FailureOutcome(err),
                                     result |-> Err(SendError(err)) ])
                            /\ stmt' = stmt
                        \/ \E readable \in BOOLEAN :
                            LET ans == RemoteAnswer(b[2], stmt)
                                got == [ResponseOutcome(ans.status, ans.body)
                                            EXCEPT !.readable = readable]
                            IN  /\ observed' = Append(observed,
                                       [ answer |-> got,
                                         result |-> handle_response(o.ty, ans.status,
                                             IF readable THEN Ok(ans.body)
                                             ELSE Err("error decoding response body")) ])
                                /\ stmt' = ans.state
    /\ UNCHANGED <<session, call, req, outcome, result, data>>

\* the statement of bin/main.rs submitted, once
Submit(t) ==
    /\ observed = <<>>
    /\ CallRemote(t, Args("execute_sql_statement", "", 0, "", InlineStatement))

\* the status asked for, with the id of the response to the submission, as
\* long as no response has told a terminal state
Poll(t) ==
    /\ observed # <<>>
    /\ IsOk(observed[1].result)
    /\ observed[1].result[2][3].statement_id # RNone
    /\ \A i \in 1..Len(observed) :
           IsOk(observed[i].result) => StateOf(observed[i].result) \notin Terminal
    /\ CallRemote(t, Args("get_sql_statement_status",
                          observed[1].result[2][3].statement_id[2], 0, "", RNone))

\* the remote runs the statement
Advance ==
    /\ stmt \in {"PENDING", "RUNNING"}
    /\ stmt' \in (IF stmt = "PENDING" THEN {"RUNNING"} ELSE Terminal)
    /\ UNCHANGED <<session, calling, data, observed>>

NextPoll == Submit(Caller) \/ Poll(Caller) \/ Advance

SpecPoll == Init /\ [][NextPoll]_vars

(***************************************************************************)
(* Properties.                                                             *)
(***************************************************************************)
SevenKinds == HttpErrorKinds \ {"InternalError"}

Done(t) == pc[t] = "done"
Responded(t) == Done(t) /\ outcome[t].kind = "response"
\* the text the dispatcher parses
TextOf(t) ==
    IF outcome[t].readable THEN outcome[t].body ELSE Raw("Failed to get response text")
\* the body as an ErrorResponse, when it is one
PayloadOf(t) == from_str(TStruct("ErrorResponse"), TextOf(t))
\* the body as the type the operation expects, when it is one
ValueOf(t) == from_str(Invoke(call[t]).ty, TextOf(t))
KindOf(t) == result[t][2].kind
MessageOf(t) == result[t][2].message

\* the lookup of the error taxonomy
TaxonomyKind(code) ==
    CASE code = "BAD_REQUEST" -> "BadRequest"
      [] code = "INVALID_PARAMETER_VALUE" -> "BadRequest"
      [] code = "UNAUTHORIZED" -> "Unauthorized"
      [] code = "PERMISSION_DENIED" -> "PermissionDenied"
      [] code = "NOT_FOUND" -> "NotFound"
      [] code = "REQUEST_LIMIT_EXCEEDED" -> "RequestLimitExceeded"
      [] code = "INTERNAL_SERVER_ERROR" -> "InternalServerError"
      [] code = "TEMPORARILY_UNAVAILABLE" -> "TemporarilyUnavailable"
      [] OTHER -> "InternalServerError"

\* C1: from_error_response maps each known code to its kind and every other
\* code to InternalServerError, carries the message unchanged, and never
\* gives InternalError: whenever a call has classified an error payload, the
\* error returned is the kind of the lookup with the payload's message.
C1_Classification ==
    \A t \in Tasks :
        (Responded(t) /\ outcome[t].status # 200 /\ IsOk(PayloadOf(t))) =>
            /\ IsErr(result[t])
            /\ KindOf(t) = TaxonomyKind(PayloadOf(t)[2][3].error_code)
            /\ KindOf(t) \in SevenKinds
            /\ MessageOf(t) = PayloadOf(t)[2][3].message

\* a code in lower case has been classified as InternalServerError
C1_Witness ==
    /\ Responded(Caller)
    /\ outcome[Caller].status = 404
    /\ TextOf(Caller) = ErrorBody("not_found", "x")
    /\ result[Caller] = Err(HttpError("InternalServerError", "x"))

\* C2: for a status other than 200 and a body that is an ErrorResponse, the
\* call returns the classification of that body, whatever the status, with
\* the body's message (403 with PERMISSION_DENIED / "no access" gives
\* PermissionDenied("no access")).
C2_ErrorBodyClassified ==
    \A t \in Tasks :
        (Responded(t) /\ outcome[t].status # 200 /\ IsOk(PayloadOf(t))) =>
            /\ result[t] = Err(from_error_response(
                   [ error_code |-> PayloadOf(t)[2][3].error_code,
                     message |-> PayloadOf(t)[2][3].message ]))
            /\ \A status \in Statuses \ {200} :
                   result[t] = handle_response(Invoke(call[t]).ty, status, Ok(TextOf(t)))
            /\ (outcome[t].status = 403 /\ TextOf(t) = ErrorBody("PERMISSION_DENIED", "no access"))
                   => result[t] = Err(HttpError("PermissionDenied", "no access"))

C2_Witness ==
    /\ Responded(Caller)
    /\ outcome[Caller].status = 403
    /\ TextOf(Caller) = ErrorBody("PERMISSION_DENIED", "no access")
    /\ result[Caller] = Err(HttpError("PermissionDenied", "no access"))

\* the texts before and after the status in a message that contains it
BeforeStatus == {"Unknown error with status code: "}
AfterStatus == {" " \o CanonicalReason(status) : status \in Statuses}
ContainsStatus(message, status) ==
    \E before \in BeforeStatus, after \in AfterStatus :
        message = before \o DisplayInt(status) \o after

\* C3: for a status other than 200 and a body that is no ErrorResponse, the
\* call returns InternalServerError with a message that contains the number
\* of the status; it returns, and never Ok.
C3_MalformedErrorBody ==
    \A t \in Tasks :
        (Responded(t) /\ outcome[t].status # 200 /\ IsErr(PayloadOf(t))) =>
            /\ IsErr(result[t])
            /\ KindOf(t) = "InternalServerError"
            /\ ContainsStatus(MessageOf(t), outcome[t].status)

C3_Witness ==
    /\ Responded(Caller)
    /\ outcome[Caller].status = 500
    /\ TextOf(Caller) = Raw("<html>502 Bad Gateway</html>")
    /\ KindOf(Caller) = "InternalServerError"
    /\ MessageOf(Caller) = "Unknown error with status code: 500 Internal Server Error"

\* C4: for status 200 and a body that is no value of the expected type, the
\* call returns InternalServerError with the text of the parse error; the
\* body is not tried as an ErrorResponse, and Ok is not returned.
C4_SuccessParseFailure ==
    \A t \in Tasks :
        (Responded(t) /\ outcome[t].status = 200 /\ IsErr(ValueOf(t))) =>
            /\ IsErr(result[t])
            /\ KindOf(t) = "InternalServerError"
            /\ MessageOf(t) = ValueOf(t)[2]
            /\ IsOk(PayloadOf(t)) => MessageOf(t) # PayloadOf(t)[2][3].message

\* a 200 whose body is a NOT_FOUND payload, on an operation that rejects it
C4_Witness ==
    /\ Responded(Caller)
    /\ outcome[Caller].status = 200
    /\ call[Caller].op = "get_cluster_info"
    /\ TextOf(Caller) = ErrorBody("NOT_FOUND", "x")
    /\ result[Caller] = Err(HttpError("InternalServerError", "missing field 'cluster_id'"))

\* C5: a call returns Ok only for a response of status 200.
C5_OkOnly200 ==
    \A t \in Tasks :
        (Done(t) /\ IsOk(result[t])) =>
            outcome[t].kind = "response" /\ outcome[t].status = 200

\* a 201 whose body is a value of the expected type has been refused
C5_Witness ==
    /\ Responded(Caller)
    /\ outcome[Caller].status = 201
    /\ call[Caller].op = "execute_job_run"
    /\ IsOk(ValueOf(Caller))
    /\ IsErr(result[Caller])

\* C6: when send() fails, the call returns TemporarilyUnavailable for a
\* timeout and InternalServerError otherwise, with the text of the failure,
\* and no status or body has been read.
C6_TransportFailure ==
    \A t \in Tasks :
        (Done(t) /\ outcome[t].kind = "failure") =>
            /\ result[t] = Err(HttpError(
                   IF outcome[t].timeout THEN "TemporarilyUnavailable"
                   ELSE "InternalServerError", outcome[t].text))
            /\ outcome[t].status = NoOutcome.status
            /\ outcome[t].body = NoOutcome.body

C6_Witness ==
    /\ Done(Caller)
    /\ outcome[Caller].kind = "failure"
    /\ outcome[Caller].timeout
    /\ req[Caller] # NoRequest
    /\ KindOf(Caller) = "TemporarilyUnavailable"


\* a failure that is local: of the transport, or a body that is neither
\* the expected value (on a 200) nor an ErrorResponse (on another status)
LocalFailure(t) ==
    /\ Done(t)
    /\ \/ outcome[t].kind = "failure"
       \/ outcome[t].kind = "response" /\ outcome[t].status = 200 /\ IsErr(ValueOf(t))
       \/ outcome[t].kind = "response" /\ outcome[t].status # 200 /\ IsErr(PayloadOf(t))

\* the kinds a well-formed remote error body is classified as
RemoteKinds == {TaxonomyKind(code) : code \in ErrorCodes}

\* C7, as claimed: a local failure is returned as InternalError, a kind no
\* well-formed remote error body is classified as.
C7_LocalDistinguished ==
    \A t \in Tasks :
        LocalFailure(t) =>
            KindOf(t) = "InternalError" /\ KindOf(t) \notin RemoteKinds

\* C7, amended: a local failure is returned as TemporarilyUnavailable (a
\* timeout) or InternalServerError (every other one), kinds that remote
\* error bodies are classified as too; InternalError is never returned.
C7_LocalKinds ==
    \A t \in Tasks :
        /\ LocalFailure(t) =>
               /\ IsErr(result[t])
               /\ KindOf(t) = IF outcome[t].kind = "failure" /\ outcome[t].timeout
                              THEN "TemporarilyUnavailable" ELSE "InternalServerError"
               /\ KindOf(t) \in RemoteKinds
        /\ (Done(t) /\ IsErr(result[t])) => KindOf(t) # "InternalError"

C7_Witness ==
    /\ LocalFailure(Caller)
    /\ outcome[Caller].kind = "failure"
    /\ ~outcome[Caller].timeout
    /\ req[Caller] # NoRequest
    /\ KindOf(Caller) = "InternalServerError"

\* C8, as claimed: every call sends one request, so that the number of
\* requests sent equals the number of calls made.
C8_OneSendPerCall == sends = calls

\* the method, the path and the body of each operation
MethodOf(a) ==
    IF a.op \in {"execute_sql_statement", "execute_job_run"} THEN "POST" ELSE "GET"
PathOf(a) ==
    CASE a.op = "execute_sql_statement" -> "api/2.0/sql/statements"
      [] a.op = "get_sql_statement_status" -> "api/2.0/sql/statements/" \o a.statement_id
      [] a.op = "get_sql_statement_result_chunk" ->
            "api/2.0/sql/statements/" \o a.statement_id \o "/result/chunks/"
                \o DisplayInt(a.chunk_index)
      [] a.op = "get_cluster_info" -> "api/2.0/clusters/get?cluster_id=" \o a.cluster_id
      [] a.op = "execute_job_run" -> "api/2.1/jobs/run-now"
JsonBodyOf(a) ==
    CASE a.op = "execute_sql_statement" ->
            RSome(Ser(TStruct("SqlStatementRequest"), a.request_body))
      [] a.op = "execute_job_run" -> RSome(Ser(TStruct("JobRunRequest"), a.request_body))
      [] OTHER -> RNone

\* C9: the request of a call has the method, the path and the body of its
\* operation; its URL is the host, "/" and the path; it has a body if and
\* only if it is a POST.
C9_RequestOfOperation ==
    \A t \in Tasks :
        req[t] # NoRequest =>
            /\ req[t].method = MethodOf(call[t])
            /\ req[t].url = << session.config.databricks_host[1],
                               session.config.databricks_host[2],
                               "/" \o PathOf(call[t]) >>
            /\ req[t].body = JsonBodyOf(call[t])
            /\ (req[t].body # RNone) <=> (req[t].method = "POST")

C9_Witness ==
    /\ pc[Caller] = "send"
    /\ call[Caller].op = "execute_job_run"
    /\ req[Caller].method = "POST"
    /\ req[Caller].url = <<"https://", "adb-1.azuredatabricks.net", "/api/2.1/jobs/run-now">>
    /\ req[Caller].body = RSome(Ser(TStruct("JobRunRequest"), JobRun))

\* what a call returns, from its own arguments and the answer to its own
\* request
ResultFor(a, o) ==
    IF o.kind = "failure" THEN Err(SendError(Failure(o.timeout, o.text)))
    ELSE handle_response(Invoke(a).ty, o.status,
             IF o.readable THEN Ok(o.body) ELSE Err("error decoding response body"))

TaskState(t) == <<pc[t], call[t], req[t], outcome[t], result[t]>>

\* C10: in every step of concurrent calls the session stays as constructed,
\* a step of one call leaves every other call as it is, and what a call
\* returns is determined by its own request and the answer to it.
C10_Independent ==
    [][ /\ session' = session
        /\ \A t \in Tasks : Done(t)' => result'[t] = ResultFor(call'[t], outcome'[t])
        /\ \A t, u \in Tasks :
               (t # u /\ TaskState(t)' # TaskState(t)) => TaskState(u)' = TaskState(u)
      ]_vars

\* two calls in progress at once have returned different results
C10_Witness ==
    /\ Done(1) /\ Done(2)
    /\ call[1].op = "execute_job_run" /\ call[2].op = "execute_job_run"
    /\ IsOk(result[1])
    /\ result[2] = Err(HttpError("PermissionDenied", "no access"))

\* a text read by the data model, and what it was read as
Read == parsed # NoResult
LinkDoc(expiration) == Doc(TStruct("ExternalLink"), Json(LinkObject(expiration)))
ExpirationOf(r) == r[2][3].expiration
\* an external link inside a ResultData, and that inside a response
InResult(link) == Json(JObj(<< <<"external_links", JArr(<<link>>)>> >>))
InResponse(link) ==
    StatementBody("SUCCEEDED",
        << <<"result", JObj(<< <<"external_links", JArr(<<link>>)>> >>)>> >>)
\* 2024-01-01T00:00:00Z in seconds since 1970-01-01T00:00:00Z
NewYear2024 == (54 * 365 + 13) * 86400

\* C11: an ExternalLink whose expiration is null is read with no
\* expiration; with an expiration "not-a-date" (or any text that is no
\* instant, or a value that is no text) the read fails, and so does the read
\* of a ResultData or a SqlStatementResponse that holds the link; with
\* "2024-01-01T00:00:00Z" it is read with that instant.  The three results
\* differ from one another.
C11_Expiration ==
    /\ (Read /\ doc = LinkDoc(<< <<"expiration", JNull>> >>)) =>
            IsOk(parsed) /\ ExpirationOf(parsed) = RNone
    /\ (Read /\ doc = LinkDoc(<< <<"expiration", JStr("2024-01-01T00:00:00Z")>> >>)) =>
            IsOk(parsed) /\ ExpirationOf(parsed) = RSome(<<"DateTime", NewYear2024>>)
    /\ \A e \in {JStr("not-a-date"), JStr(""), JNum(1704067200)} :
            LET link == LinkObject(<< <<"expiration", e>> >>)
            IN  /\ (Read /\ doc = Doc(TStruct("ExternalLink"), Json(link))) => IsErr(parsed)
                /\ (Read /\ doc = Doc(TStruct("ResultData"), InResult(link))) => IsErr(parsed)
                /\ (Read /\ doc = Doc(TStruct("SqlStatementResponse"), InResponse(link)))
                        => IsErr(parsed)
    /\ (Read /\ doc = LinkDoc(<< <<"expiration", JStr("not-a-date")>> >>)) =>
            parsed = Err("input contains invalid characters")
    /\ Cardinality({ from_str(TStruct("ExternalLink"),
                          Json(LinkObject(<< <<"expiration", e>> >>))) :
                     e \in {JNull, JStr("not-a-date"), JStr("2024-01-01T00:00:00Z")} }) = 3

\* a response whose one link expires "not-a-date" has been refused whole
C11_Witness ==
    /\ doc = Doc(TStruct("SqlStatementResponse"),
                 InResponse(LinkObject(<< <<"expiration", JStr("not-a-date")>> >>)))
    /\ parsed = Err("input contains invalid characters")

\* C12, as claimed: an ExternalLink with every member but expiration is read,
\* with no expiration, as one whose expiration is null is.
C12_AbsentExpiration ==
    (Read /\ doc = LinkDoc(<<>>)) =>
        /\ IsOk(parsed)
        /\ ExpirationOf(parsed) = RNone
        /\ parsed = from_str(TStruct("ExternalLink"),
                             Json(LinkObject(<< <<"expiration", JNull>> >>)))

\* the members of the object a value was written as
MembersOf(w) == w[2][2][2]
KeysOf(w) == {MembersOf(w)[i][1] : i \in 1..Len(MembersOf(w))}

\* C13: a ResultData is written with the key data_array if and only if it
\* has a data_array, and with the key external_links if and only if it has
\* external_links; no member written is null; a ResultData with a data_array
\* alone is written as an object of that one member; and the text written is
\* read back as the same ResultData.
C13_ResultDataRoundTrip ==
    (doc.ty = TStruct("ResultData") /\ IsOk(written)) =>
        /\ ("data_array" \in KeysOf(written)) <=> (parsed[2][3].data_array # RNone)
        /\ ("external_links" \in KeysOf(written)) <=> (parsed[2][3].external_links # RNone)
        /\ \A i \in 1..Len(MembersOf(written)) : MembersOf(written)[i][2] # JNull
        /\ (parsed[2][3].data_array # RNone /\ parsed[2][3].external_links = RNone) =>
               KeysOf(written) = {"data_array"}
        /\ reread # NoResult => reread = parsed

\* a ResultData read from a text whose external_links is null has been
\* written without that member, and read back
C13_Witness ==
    /\ doc = Doc(TStruct("ResultData"),
                 Json(JObj(<< <<"data_array", DataArray>>, <<"external_links", JNull>> >>)))
    /\ written = Ok(Json(JObj(<< <<"data_array", DataArray>> >>)))
    /\ reread = parsed
    /\ parsed[2][3].external_links = RNone

\* the keys of the fields declared with #[serde(default)]
DefaultedKeys == {"chunks", "columns", "disk_spec"}

\* C14: a Manifest without the member chunks, alone or inside a response,
\* is read, with an empty list of chunks; and no read fails for the lack of
\* a member whose field has a default.
C14_ManifestDefaultChunks ==
    /\ (Read /\ doc = Doc(TStruct("Manifest"), Json(ManifestWithout("chunks")))) =>
            IsOk(parsed) /\ parsed[2][3].chunks = <<"Vec", <<>>>>
    /\ (Read /\ doc = Doc(TStruct("SqlStatementResponse"),
                    StatementBody("SUCCEEDED", << <<"manifest", ManifestWithout("chunks")>> >>))) =>
            IsOk(parsed) /\ parsed[2][3].manifest[2][3].chunks = <<"Vec", <<>>>>
    /\ (Read /\ IsErr(parsed)) =>
            \A k \in DefaultedKeys : parsed[2] # "missing field '" \o k \o "'"

C14_Witness ==
    /\ doc = Doc(TStruct("Manifest"), Json(ManifestWithout("chunks")))
    /\ IsOk(parsed)
    /\ parsed[2][3].chunks = <<"Vec", <<>>>>
    /\ parsed[2][3].format = "JSON_ARRAY"

\* C16, as claimed: no call aborts; every call ends by returning Ok or Err.
C16_NoPanic == \A t \in Tasks : pc[t] # "panicked"

\* a call of a free function, in progress or returned
ByFunction(t) == pc[t] \in {"fn_send", "fn_text", "fn_done"}

\* C17: a free function uses the method and the path of the session method
\* of its name, its dispatcher sends the request the session's dispatcher
\* sends for the same host, token, method, endpoint and body, and for the
\* same outcome of the transport it returns what the session's dispatcher
\* returns.
C17_Equivalent ==
    \A t \in Tasks :
        ByFunction(t) =>
            /\ InvokeFunction(call[t]) = Invoke(call[t])
            /\ req[t] # NoRequest =>
                   <<"Request", req[t]>> =
                       BuildRequest(session, Invoke(call[t]).method,
                           Invoke(call[t]).endpoint, Invoke(call[t]).body)
            /\ pc[t] = "fn_done" => result[t] = ResultFor(call[t], outcome[t])

\* a free function has returned the classification of a 202 whose body is
\* that of a success
C17_Witness ==
    /\ pc[Caller] = "fn_done"
    /\ call[Caller].op = "get_sql_statement_status"
    /\ outcome[Caller].status = 202
    /\ outcome[Caller].readable
    /\ outcome[Caller].body = StatementBody("PENDING", <<>>)
    /\ req[Caller].url = <<"https://", "adb-1.azuredatabricks.net",
                           "/api/2.0/sql/statements/01ee-a1">>
    /\ result[Caller] = Err(HttpError("InternalServerError",
                            "Unknown error with status code: 202 Accepted"))

\* the calls that returned a response, in order
Responses == SelectSeq(observed, LAMBDA x : IsOk(x.result))
Rank(state) == IF state = "PENDING" THEN 1 ELSE IF state = "RUNNING" THEN 2 ELSE 3

=============================================================================
